---------------------------- MODULE Spec2Model ----------------------------
(***************************************************************************)
(* Steam Wishlist Copier (src/Start.py).                                   *)
(*                                                                         *)
(* The script is one sequential process: main() calls download_wishlist    *)
(* (the Fetcher), optionally truncates and previews the identifier list,   *)
(* then drives a browser session through add_to_wishlist (the Replicator). *)
(* The model follows the control flow of the three functions step by step. *)
(* The HTTP endpoint and the browser session are the environment: every    *)
(* call into them returns or raises nondeterministically.                  *)
(***************************************************************************)
EXTENDS Integers, Sequences, FiniteSets, TLC

(***************************************************************************)
(* Bounds of the model.                                                    *)
(***************************************************************************)
\* longest wishlist (in non-empty pages) the endpoint serves in SpecFetch
MaxPages == 2
\* most identifiers in one page served in SpecFetch
MaxPageLen == 2
\* longest identifier list handed to add_to_wishlist in SpecRepl
MaxIds == 3

\* AppIdentifier values (numeric strings)
Ids == {"10", "20", "30"}

(***************************************************************************)
(* Helpers on sequences.                                                   *)
(***************************************************************************)
Range(s) == {s[i] : i \in 1..Len(s)}

\* sequences over S of length at most n
RECURSIVE SeqsUpTo(_, _)
SeqsUpTo(S, n) ==
  IF n = 0 THEN {<<>>}
  ELSE LET shorter == SeqsUpTo(S, n - 1)
       IN  shorter \cup {Append(s, x) : s \in shorter, x \in S}

\* a sequence without repeated elements
NoRepeat(s) == \A i, j \in 1..Len(s) : i # j => s[i] # s[j]

\* sequences over S of length at most n without repeated elements
DistinctSeqs(S, n) == {s \in SeqsUpTo(S, n) : NoRepeat(s)}

(***************************************************************************)
(* JSON values returned by response.json().  A JSON object is kept as the  *)
(* sequence of its keys in document order (a Python dict keeps insertion   *)
(* order and has no repeated key); any other JSON value is kept only by    *)
(* its truthiness, which is all the code looks at before it fails.         *)
(***************************************************************************)
JsonObject(keys) == [kind |-> "object", keys |-> keys, truthy |-> keys # <<>>]
JsonOther(truthy) == [kind |-> "other", keys |-> <<>>, truthy |-> truthy]
EmptyObject == JsonObject(<<>>)

\* the non-empty pages a wishlist can consist of
PageBodies == DistinctSeqs(Ids, MaxPageLen) \ {<<>>}
\* the wishlists served in SpecFetch: pages 0..k-1 non-empty, every later page {}
Servers == SeqsUpTo(PageBodies, MaxPages)
\* the wishlists served in the model of the whole run
MainServers == { <<>>, << <<"10", "20">> >>, << <<"10", "20">>, <<"20", "30">> >> }


VARIABLES
  pc,             \* position of the process in main / download_wishlist / add_to_wishlist
  mode,           \* how the run is ending: "running" until an exit path is taken
  dry_run,        \* args.dry_run
  limit,          \* args.limit: <<>> for None, <<n>> for --limit n
  server,         \* the source account's wishlist: its non-empty pages, in order
  page,           \* download_wishlist: page counter
  wishlist_data,  \* download_wishlist: keys of the accumulator dict, in insertion order
  json_data,      \* download_wishlist: the body parsed from the last response
  requests,       \* page numbers of the HTTP GETs issued so far, in order
  dl_end,         \* why the download loop ended: "running" while it has not
  files,          \* cache slots of TEMP_DIR: page index -> body written
  dirExists,      \* whether TEMP_DIR exists
  app_ids,        \* main: the identifier list
  idx,            \* add_to_wishlist: 1-based position in app_ids (enumerate)
  added,          \* add_to_wishlist: counter
  skipped,        \* add_to_wishlist: counter
  errors,         \* add_to_wishlist: counter
  style,          \* add_to_wishlist: value of get_attribute("style")
  gate,           \* add_to_wishlist: what handle_age_gate did for the current identifier
  log,            \* session calls issued and outcomes recorded, in order: <<op, idx>>
  prompted,       \* whether main has asked for the credentials
  playwright,     \* the sync_playwright() context: "off", "running", "stopped"
  browser,        \* the browser session (browser, context, page): "none", "open", "closed"
  run,            \* which call of download_wishlist this is: 1, or 2 in SpecTwice
  first           \* what the first call of download_wishlist came to, once it returned

fetchVars == <<page, wishlist_data, json_data, requests, dl_end, files, dirExists>>
replVars == <<idx, added, skipped, errors, style, gate, log>>
sessionVars == <<playwright, browser>>
inputVars == <<dry_run, limit, server>>
callVars == <<run, first>>
vars == <<pc, mode, inputVars, callVars, fetchVars, app_ids, replVars, prompted,
          sessionVars>>

(***************************************************************************)
(* download_wishlist (the Fetcher).                                        *)
(***************************************************************************)
\* the body the endpoint serves for page p: {} once the wishlist is exhausted
PageAt(srv, p) == IF p < Len(srv) THEN JsonObject(srv[p + 1]) ELSE EmptyObject

\* dict.update(json_data) with every key appended, present or not
RECURSIVE UpdateNoDedup(_, _)
UpdateNoDedup(keys, new) ==
  IF new = <<>> THEN keys ELSE UpdateNoDedup(Append(keys, Head(new)), Tail(new))

\* dict.update(json_data) on the keys: a key already present keeps its place,
\* a new key goes to the end
RECURSIVE Update(_, _)
Update(keys, new) ==
  IF new = <<>> THEN keys
  ELSE IF Head(new) \in Range(keys) THEN Update(keys, Tail(new))
       ELSE Update(Append(keys, Head(new)), Tail(new))

\* the page merged without being written to the cache
WriteNothing(fs, p, body) == fs

\* open(TEMP_DIR / f"wishlist{page}.json", "w") and json.dump
WriteSlot(fs, p, body) ==
  [x \in DOMAIN fs \cup {p} |-> IF x = p THEN body ELSE fs[x]]

\* the except clause retrying the same page instead of leaving the loop
RequestExceptionRetries == "dl_request"

\* except requests.RequestException: print, break
OnRequestException == "dl_return"

\* what one GET may come to
RequestOutcomes == {"ok", "transport", "invalid_json", "falsy", "nonobject"}

\* first before any call of download_wishlist has returned
NoFirst == [result |-> <<>>, page |-> 0, dl_end |-> "none", files |-> <<>>]

\* what the request for page p came to in the first call: every page before the
\* one that ended the loop was a non-empty object
FirstOutcome(p) ==
  IF p < first.page \/ first.dl_end = "empty" THEN "ok" ELSE first.dl_end

\* the responses the request for page p may get: anything in a first call, in a
\* second call what the first call got for that page
Responses(p) ==
  IF run = 2 /\ p <= first.page THEN {FirstOutcome(p)} ELSE RequestOutcomes

\* TEMP_DIR.mkdir() without exist_ok: FileExistsError when the directory is there
MkdirRaisesIfExists(exists) == exists

\* TEMP_DIR.mkdir(exist_ok=True) raises nothing when the directory is there
MkdirRaises(exists) == FALSE

\* TEMP_DIR.mkdir(exist_ok=True); wishlist_data = {}; page = 0
DlMkdir ==
  /\ pc = "dl_mkdir"
  /\ IF MkdirRaises(dirExists)
     THEN /\ pc' = "exit"
          /\ mode' = "uncaught"
          /\ UNCHANGED <<dirExists, wishlist_data, page>>
     ELSE /\ dirExists' = TRUE
          /\ wishlist_data' = <<>>
          /\ page' = 0
          /\ pc' = "dl_request"
          /\ mode' = mode
  /\ UNCHANGED <<inputVars, callVars, json_data, requests, dl_end, files, app_ids,
                 replVars, prompted, sessionVars>>

\* requests.get(...); response.raise_for_status(); response.json(); if not json_data
DlRequest ==
  /\ pc = "dl_request"
  /\ requests' = Append(requests, page)
  /\ \E outcome \in Responses(page) :
       \/ /\ outcome = "ok"
          /\ json_data' = PageAt(server, page)
          /\ IF json_data'.truthy
             THEN pc' = "dl_write" /\ dl_end' = dl_end
             ELSE pc' = "dl_return" /\ dl_end' = "empty"
       \* network failure, timeout or raise_for_status(): a RequestException
       \/ /\ outcome = "transport"
          /\ pc' = OnRequestException
          /\ dl_end' = "transport"
          /\ UNCHANGED json_data
       \* response.json() raises requests.exceptions.JSONDecodeError, which is a
       \* RequestException
       \/ /\ outcome = "invalid_json"
          /\ pc' = OnRequestException
          /\ dl_end' = "invalid_json"
          /\ UNCHANGED json_data
       \* a JSON value that is no object and is falsy: null, [], "", 0, false
       \/ /\ outcome = "falsy"
          /\ json_data' = JsonOther(FALSE)
          /\ pc' = "dl_return"
          /\ dl_end' = "falsy"
       \* a JSON value that is no object and is truthy: [1, 2], "abc", 5
       \/ /\ outcome = "nonobject"
          /\ json_data' = JsonOther(TRUE)
          /\ pc' = "dl_write"
          /\ UNCHANGED dl_end
  /\ UNCHANGED <<mode, inputVars, callVars, page, wishlist_data, files, dirExists, app_ids,
                 replVars, prompted, sessionVars>>

\* with open(file_path, "w") as f: json.dump(json_data, f, ...)
DlWrite ==
  /\ pc = "dl_write"
  /\ files' = WriteSlot(files, page, json_data)
  /\ pc' = "dl_merge"
  /\ UNCHANGED <<mode, inputVars, callVars, page, wishlist_data, json_data, requests, dl_end,
                 dirExists, app_ids, replVars, prompted, sessionVars>>

\* wishlist_data.update(json_data): on a list of scalars, a string or a number it
\* raises TypeError / ValueError, which except requests.RequestException does not
\* catch; the call at line 213 is outside any try, so the process dies
DlMerge ==
  /\ pc = "dl_merge"
  /\ IF json_data.kind = "object"
     THEN /\ wishlist_data' = Update(wishlist_data, json_data.keys)
          /\ pc' = "dl_incr"
          /\ UNCHANGED <<mode, dl_end>>
     ELSE /\ pc' = "exit"
          /\ mode' = "uncaught"
          /\ dl_end' = "raised"
          /\ UNCHANGED wishlist_data
  /\ UNCHANGED <<inputVars, callVars, page, json_data, requests, files, dirExists, app_ids,
                 replVars, prompted, sessionVars>>

\* page += 1; time.sleep(1)
DlIncr ==
  /\ pc = "dl_incr"
  /\ page' = page + 1
  /\ pc' = "dl_request"
  /\ UNCHANGED <<mode, inputVars, callVars, wishlist_data, json_data, requests, dl_end, files,
                 dirExists, app_ids, replVars, prompted, sessionVars>>

\* return list(wishlist_data.keys()), assigned to app_ids at line 213
DlReturn ==
  /\ pc = "dl_return"
  /\ app_ids' = wishlist_data
  /\ pc' = "check_empty"
  /\ UNCHANGED <<mode, inputVars, callVars, fetchVars, replVars, prompted, sessionVars>>

\* Ctrl-C while a request or the sleep blocks (the sleep comes after page += 1):
\* KeyboardInterrupt is no RequestException and line 213 is outside any try
DlInterrupt ==
  /\ pc \in {"dl_request", "dl_incr"}
  /\ page' = IF pc = "dl_incr" THEN page + 1 ELSE page
  /\ pc' = "exit"
  /\ mode' = "interrupt_uncaught"
  /\ dl_end' = "raised"
  /\ UNCHANGED <<inputVars, callVars, wishlist_data, json_data, requests, files,
                 dirExists, app_ids, replVars, prompted, sessionVars>>

NextFetch ==
  \/ DlMkdir
  \/ DlRequest
  \/ DlWrite
  \/ DlMerge
  \/ DlIncr
  \/ DlReturn
  \/ DlInterrupt

\* values of the variables a fresh process starts with
Fresh ==
  /\ mode = "running"
  /\ page = 0
  /\ wishlist_data = <<>>
  /\ json_data = EmptyObject
  /\ requests = <<>>
  /\ dl_end = "running"
  /\ files = <<>>
  /\ dirExists = FALSE
  /\ idx = 0
  /\ added = 0
  /\ skipped = 0
  /\ errors = 0
  /\ style = "unset"
  /\ gate = "unset"
  /\ log = <<>>
  /\ prompted = FALSE
  /\ playwright = "off"
  /\ browser = "none"
  /\ run = 1
  /\ first = NoFirst

\* download_wishlist called on its own, against every bounded wishlist
InitFetch ==
  /\ Fresh
  /\ pc = "dl_mkdir"
  /\ dry_run = FALSE
  /\ limit = <<>>
  /\ server \in Servers
  /\ app_ids = <<>>

SpecFetch == InitFetch /\ [][NextFetch]_vars

\* download_wishlist called a second time after it returned, the cache directory
\* and its page files left as the first call left them, the request log started
\* afresh
CallAgain ==
  /\ pc = "check_empty"
  /\ run = 1
  /\ first' = [result |-> app_ids, page |-> page, dl_end |-> dl_end, files |-> files]
  /\ run' = 2
  /\ requests' = <<>>
  /\ dl_end' = "running"
  /\ json_data' = EmptyObject
  /\ pc' = "dl_mkdir"
  /\ UNCHANGED <<mode, inputVars, page, wishlist_data, files, dirExists, app_ids,
                 replVars, prompted, sessionVars>>

NextTwice ==
  \/ NextFetch
  \/ CallAgain

\* two calls of download_wishlist in a row, the second given the responses of the
\* first
SpecTwice == InitFetch /\ [][NextTwice]_vars


(***************************************************************************)
(* add_to_wishlist (the Replicator) and handle_age_gate.                   *)
(*                                                                         *)
(* log holds, in order, the session calls the loop issues that the         *)
(* contracts speak of (goto, click, the 4 s rate-limit delay, the 2 s      *)
(* recovery pause; an entry is made when the call is issued, whether it    *)
(* returns or raises), the counter increments (Added, Skipped, Error) and  *)
(* every KeyboardInterrupt raised while the loop runs, each with the       *)
(* position of the identifier being processed.                             *)
(***************************************************************************)
\* values of wishlist_area.get_attribute("style"): None or "" (falsy), a style
\* holding "display: none", any other style
StyleValues == {"None", "display_none", "other"}

\* style and "display: none" in style
IsHidden(st) == st = "display_none"

\* the loop going on to the next identifier right after the click
NoRateLimitDelay == "repl_next"

\* page.wait_for_timeout(RATE_LIMIT_DELAY * 1000) follows the click
AfterAdded == "repl_delay"

\* total = len(app_ids); added = skipped = errors = 0
ReplStart ==
  /\ pc = "repl_start"
  /\ idx' = 0
  /\ added' = 0
  /\ skipped' = 0
  /\ errors' = 0
  /\ pc' = "repl_next"
  /\ UNCHANGED <<mode, inputVars, callVars, fetchVars, app_ids, style, gate, log, prompted,
                 sessionVars>>

\* for idx, app_id in enumerate(app_ids, 1): the next identifier, or
\* return added, skipped, errors at the end of the list
ReplNext ==
  /\ pc = "repl_next"
  /\ IF idx < Len(app_ids)
     THEN /\ idx' = idx + 1
          /\ gate' = "unset"
          /\ pc' = "repl_goto"
     ELSE /\ pc' = "summary"
          /\ UNCHANGED <<idx, gate>>
  /\ UNCHANGED <<mode, inputVars, callVars, fetchVars, app_ids, added, skipped, errors, style,
                 log, prompted, sessionVars>>

\* except Exception as e: print; errors += 1 (the recovery pause is the next step)
OuterExcept ==
  /\ errors' = errors + 1
  /\ pc' = "repl_recover"

\* except PlaywrightTimeout: print; errors += 1
InnerExcept ==
  /\ errors' = errors + 1
  /\ pc' = "repl_next"

\* page.goto(...): outside the inner try, so a timeout is handled by the outer except
ReplGoto ==
  /\ pc = "repl_goto"
  /\ \/ /\ pc' = "repl_settle"
        /\ log' = Append(log, <<"goto", idx>>)
        /\ UNCHANGED errors
     \/ /\ OuterExcept
        /\ log' = log \o << <<"goto", idx>>, <<"Error", idx>> >>
  /\ UNCHANGED <<mode, inputVars, callVars, fetchVars, app_ids, idx, added, skipped, style,
                 gate, prompted, sessionVars>>

\* page.wait_for_timeout(1000)
ReplSettle ==
  /\ pc = "repl_settle"
  /\ \/ /\ pc' = "repl_gate"
        /\ UNCHANGED <<errors, log>>
     \/ /\ OuterExcept
        /\ log' = Append(log, <<"Error", idx>>)
  /\ UNCHANGED <<mode, inputVars, callVars, fetchVars, app_ids, idx, added, skipped, style,
                 gate, prompted, sessionVars>>

\* a failed age gate treated as the identifier's failure: the outer except path
AgeGateFailureIsError == IF gate' = "failed" THEN "repl_recover" ELSE "repl_waitfor"

\* where add_to_wishlist goes on after handle_age_gate returns, whatever it returns
AfterAgeGate == "repl_waitfor"

\* handle_age_gate(page): no gate (falls off the end), gate resolved (True), or
\* anything raised inside the try, which the bare except turns into False; the
\* bare except catches KeyboardInterrupt as well
HandleAgeGate ==
  /\ pc = "repl_gate"
  /\ \/ /\ gate' \in {"absent", "resolved", "failed"}
        /\ UNCHANGED log
     \/ /\ gate' = "failed"
        /\ log' = Append(log, <<"KeyboardInterrupt", idx>>)
  /\ pc' = AfterAgeGate
  /\ UNCHANGED <<mode, inputVars, callVars, fetchVars, app_ids, idx, added, skipped, errors,
                 style, prompted, sessionVars>>

\* wishlist_area.wait_for(timeout=5000)
ReplWaitFor ==
  /\ pc = "repl_waitfor"
  /\ \/ /\ pc' = "repl_getattr"
        /\ UNCHANGED <<errors, log>>
     \/ /\ InnerExcept
        /\ log' = Append(log, <<"Error", idx>>)
     \/ /\ OuterExcept
        /\ log' = Append(log, <<"Error", idx>>)
  /\ UNCHANGED <<mode, inputVars, callVars, fetchVars, app_ids, idx, added, skipped, style,
                 gate, prompted, sessionVars>>

\* style = wishlist_area.get_attribute("style"); if style and "display: none" in
\* style: skipped += 1
ReplGetAttr ==
  /\ pc = "repl_getattr"
  /\ \/ /\ style' \in StyleValues
        /\ IF IsHidden(style')
           THEN /\ skipped' = skipped + 1
                /\ log' = Append(log, <<"Skipped", idx>>)
                /\ pc' = "repl_next"
           ELSE /\ pc' = "repl_click"
                /\ UNCHANGED <<skipped, log>>
        /\ UNCHANGED errors
     \/ /\ InnerExcept
        /\ log' = Append(log, <<"Error", idx>>)
        /\ UNCHANGED <<style, skipped>>
     \/ /\ OuterExcept
        /\ log' = Append(log, <<"Error", idx>>)
        /\ UNCHANGED <<style, skipped>>
  /\ UNCHANGED <<mode, inputVars, callVars, fetchVars, app_ids, idx, added, gate, prompted,
                 sessionVars>>

\* wishlist_area.click(); added += 1
ReplClick ==
  /\ pc = "repl_click"
  /\ \/ /\ added' = added + 1
        /\ log' = log \o << <<"click", idx>>, <<"Added", idx>> >>
        /\ pc' = AfterAdded
        /\ UNCHANGED errors
     \/ /\ InnerExcept
        /\ log' = log \o << <<"click", idx>>, <<"Error", idx>> >>
        /\ UNCHANGED added
     \/ /\ OuterExcept
        /\ log' = log \o << <<"click", idx>>, <<"Error", idx>> >>
        /\ UNCHANGED added
  /\ UNCHANGED <<mode, inputVars, callVars, fetchVars, app_ids, idx, skipped, style, gate,
                 prompted, sessionVars>>

\* page.wait_for_timeout(RATE_LIMIT_DELAY * 1000): inside both try blocks, after
\* added += 1; wait_for_timeout raises when the page or browser has gone
ReplDelay ==
  /\ pc = "repl_delay"
  /\ \/ /\ pc' = "repl_next"
        /\ log' = Append(log, <<"rate_delay", idx>>)
        /\ UNCHANGED errors
     \/ /\ OuterExcept
        /\ log' = log \o << <<"rate_delay", idx>>, <<"Error", idx>> >>
  /\ UNCHANGED <<mode, inputVars, callVars, fetchVars, app_ids, idx, added, skipped, style,
                 gate, prompted, sessionVars>>

\* page.wait_for_timeout(2000) in the except clause: when it raises, nothing in
\* add_to_wishlist catches it and main's except Exception does
ReplRecover ==
  /\ pc = "repl_recover"
  /\ log' = Append(log, <<"recovery_pause", idx>>)
  /\ \/ pc' = "repl_next"
     \/ pc' = "except_exc"
  /\ UNCHANGED <<mode, inputVars, callVars, fetchVars, app_ids, idx, added, skipped, errors,
                 style, gate, prompted, sessionVars>>

\* Ctrl-C while a session call of the loop blocks (not inside handle_age_gate):
\* KeyboardInterrupt is no Exception, so it leaves add_to_wishlist
ReplInterrupt ==
  /\ pc \in {"repl_goto", "repl_settle", "repl_waitfor", "repl_getattr",
             "repl_click", "repl_delay", "repl_recover"}
  /\ pc' = "except_kbd"
  /\ log' = Append(log, <<"KeyboardInterrupt", idx>>)
  /\ UNCHANGED <<mode, inputVars, callVars, fetchVars, app_ids, idx, added, skipped, errors,
                 style, gate, prompted, sessionVars>>

NextRepl ==
  \/ ReplStart
  \/ ReplNext
  \/ ReplGoto
  \/ ReplSettle
  \/ HandleAgeGate
  \/ ReplWaitFor
  \/ ReplGetAttr
  \/ ReplClick
  \/ ReplDelay
  \/ ReplRecover
  \/ ReplInterrupt

\* the lists add_to_wishlist is called with in SpecRepl: the loop never looks at
\* an identifier's value, so one list of each length stands for all
ReplIds == <<"10", "20", "30", "40", "50", "60">>
ReplLists == {SubSeq(ReplIds, 1, n) : n \in 0..MaxIds}

\* add_to_wishlist called on its own with every bounded list, in the state main
\* calls it in: the list fetched as one page, the session logged in
InitRepl ==
  /\ pc = "repl_start"
  /\ app_ids \in ReplLists
  /\ mode = "running"
  /\ dry_run = FALSE
  /\ limit = <<>>
  /\ server = IF app_ids = <<>> THEN <<>> ELSE <<app_ids>>
  /\ page = Len(server)
  /\ wishlist_data = app_ids
  /\ json_data = EmptyObject
  /\ requests = [i \in 1..(Len(server) + 1) |-> i - 1]
  /\ dl_end = "empty"
  /\ files = [x \in 0..(Len(server) - 1) |-> JsonObject(server[x + 1])]
  /\ dirExists = TRUE
  /\ idx = 0
  /\ added = 0
  /\ skipped = 0
  /\ errors = 0
  /\ style = "unset"
  /\ gate = "unset"
  /\ log = <<>>
  /\ prompted = TRUE
  /\ playwright = "running"
  /\ browser = "open"
  /\ run = 1
  /\ first = NoFirst

SpecRepl == InitRepl /\ [][NextRepl]_vars


(***************************************************************************)
(* cleanup_temp_files and main.                                            *)
(***************************************************************************)
\* values of --limit in the model of the whole run: absent, or an integer
Limits == {<<>>, <<-1>>, <<0>>, <<1>>, <<2>>}

Min(a, b) == IF a < b THEN a ELSE b
Max(a, b) == IF a > b THEN a ELSE b

\* Python's s[:n]
SliceTo(s, n) ==
  IF n >= 0 THEN SubSeq(s, 1, Min(n, Len(s)))
  ELSE SubSeq(s, 1, Max(Len(s) + n, 0))

\* cleanup_temp_files(): if TEMP_DIR.exists(): unlink wishlist*.json; rmdir
CleanupTempFiles ==
  /\ dirExists' = FALSE
  /\ files' = <<>>

\* leaving the with block without stopping Playwright
WithExitLeavesBrowser == browser

\* sync_playwright().__exit__: stopping Playwright ends its driver process and
\* with it every browser the driver launched
WithExitBrowser == IF browser = "open" THEN "terminated" ELSE browser

\* main going on with an empty list instead of returning
CheckEmptyFallsThrough ==
  /\ pc = "check_empty"
  /\ pc' = "apply_limit"
  /\ UNCHANGED <<mode, inputVars, callVars, fetchVars, app_ids, replVars, prompted,
                 sessionVars>>

\* if not app_ids: print; return
CheckEmpty ==
  /\ pc = "check_empty"
  /\ IF app_ids = <<>>
     THEN pc' = "exit" /\ mode' = "empty"
     ELSE pc' = "apply_limit" /\ mode' = mode
  /\ UNCHANGED <<inputVars, callVars, fetchVars, app_ids, replVars, prompted, sessionVars>>

\* if args.limit: app_ids = app_ids[:args.limit]
ApplyLimit ==
  /\ pc = "apply_limit"
  /\ IF limit # <<>> /\ limit[1] # 0
     THEN app_ids' = SliceTo(app_ids, limit[1])
     ELSE app_ids' = app_ids
  /\ pc' = "check_dry"
  /\ UNCHANGED <<mode, inputVars, callVars, fetchVars, replVars, prompted, sessionVars>>

\* if args.dry_run: show_wishlist_preview; cleanup_temp_files(); return
\* otherwise show_wishlist_preview and go on to the credentials
CheckDryRun ==
  /\ pc = "check_dry"
  /\ IF dry_run
     THEN /\ CleanupTempFiles
          /\ pc' = "exit"
          /\ mode' = "dryrun"
     ELSE /\ pc' = "credentials"
          /\ UNCHANGED <<mode, files, dirExists>>
  /\ UNCHANGED <<inputVars, callVars, page, wishlist_data, json_data, requests, dl_end,
                 app_ids, replVars, prompted, sessionVars>>

\* username = input(...); password = input(...): outside any try, so Ctrl-C at
\* the prompt ends the process with the traceback
Credentials ==
  /\ pc = "credentials"
  /\ prompted' = TRUE
  /\ \/ pc' = "with_enter" /\ mode' = mode
     \/ pc' = "exit" /\ mode' = "interrupt_uncaught"
  /\ UNCHANGED <<inputVars, callVars, fetchVars, app_ids, replVars, sessionVars>>

\* with sync_playwright() as p: starting the driver may fail, before the try
WithEnter ==
  /\ pc = "with_enter"
  /\ \/ /\ playwright' = "running"
        /\ pc' = "launch"
        /\ mode' = mode
     \/ /\ pc' = "exit"
        /\ mode' = "uncaught"
        /\ UNCHANGED playwright
  /\ UNCHANGED <<inputVars, callVars, fetchVars, app_ids, replVars, prompted, browser>>

\* browser = p.chromium.launch(...); context = browser.new_context(...);
\* page = context.new_page(): launch may fail, or a later call with the browser up
Launch ==
  /\ pc = "launch"
  /\ \/ browser' = "open" /\ pc' = "login"
     \/ browser' = browser /\ pc' = "except_exc"
     \/ browser' = "open" /\ pc' = "except_exc"
     \/ browser' = "open" /\ pc' = "except_kbd"
  /\ UNCHANGED <<mode, inputVars, callVars, fetchVars, app_ids, replVars, prompted, playwright>>

\* login_to_steam(page, username, password): goto may raise, the
\* PlaywrightTimeout of the form wait is re-raised
Login ==
  /\ pc = "login"
  /\ pc' \in {"wait_enter", "except_exc", "except_kbd"}
  /\ UNCHANGED <<mode, inputVars, callVars, fetchVars, app_ids, replVars, prompted, sessionVars>>

\* input("Press Enter after completing login ..."), then the banner and the call
\* of add_to_wishlist
WaitEnter ==
  /\ pc = "wait_enter"
  /\ pc' \in {"repl_start", "except_kbd"}
  /\ UNCHANGED <<mode, inputVars, callVars, fetchVars, app_ids, replVars, prompted, sessionVars>>

\* the summary prints, then context.close(); browser.close()
Summary ==
  /\ pc = "summary"
  /\ \/ browser' = "closed" /\ pc' = "finally" /\ mode' = "normal"
     \/ browser' = browser /\ pc' = "except_exc" /\ mode' = mode
  /\ UNCHANGED <<inputVars, callVars, fetchVars, app_ids, replVars, prompted, playwright>>

\* except KeyboardInterrupt: print
ExceptKeyboardInterrupt ==
  /\ pc = "except_kbd"
  /\ mode' = "interrupt"
  /\ pc' = "finally"
  /\ UNCHANGED <<inputVars, callVars, fetchVars, app_ids, replVars, prompted, sessionVars>>

\* except Exception as e: print; traceback.print_exc()
ExceptException ==
  /\ pc = "except_exc"
  /\ mode' = "fatal"
  /\ pc' = "finally"
  /\ UNCHANGED <<inputVars, callVars, fetchVars, app_ids, replVars, prompted, sessionVars>>

\* finally: cleanup_temp_files()
Finally ==
  /\ pc = "finally"
  /\ CleanupTempFiles
  /\ pc' = "with_exit"
  /\ UNCHANGED <<mode, inputVars, callVars, page, wishlist_data, json_data, requests, dl_end,
                 app_ids, replVars, prompted, sessionVars>>

\* the end of the with block, then the end of main
WithExit ==
  /\ pc = "with_exit"
  /\ playwright' = "stopped"
  /\ browser' = WithExitBrowser
  /\ pc' = "exit"
  /\ UNCHANGED <<mode, inputVars, callVars, fetchVars, app_ids, replVars, prompted>>

NextMain ==
  \/ CheckEmpty
  \/ ApplyLimit
  \/ CheckDryRun
  \/ Credentials
  \/ WithEnter
  \/ Launch
  \/ Login
  \/ WaitEnter
  \/ Summary
  \/ ExceptKeyboardInterrupt
  \/ ExceptException
  \/ Finally
  \/ WithExit

Next == NextFetch \/ NextRepl \/ NextMain

\* the process at line 213, the arguments parsed
Init ==
  /\ Fresh
  /\ pc = "dl_mkdir"
  /\ dry_run \in BOOLEAN
  /\ limit \in Limits
  /\ server \in MainServers
  /\ app_ids = <<>>

Spec == Init /\ [][Next]_vars


(***************************************************************************)
(* Vocabulary of the properties.                                           *)
(***************************************************************************)
\* the pages of a wishlist laid end to end
RECURSIVE Flatten(_)
Flatten(pages) == IF pages = <<>> THEN <<>> ELSE Head(pages) \o Flatten(Tail(pages))

\* the elements of s, each once, in the order of their first occurrence
FirstOccurrences(s) ==
  LET kept[n \in 0..Len(s)] ==
        IF n = 0 THEN <<>>
        ELSE IF \E q \in 1..(n - 1) : s[q] = s[n] THEN kept[n - 1]
             ELSE Append(kept[n - 1], s[n])
  IN  kept[Len(s)]

\* the identifiers of pages 0..m-1 in first-seen order
UnionOfPages(m) == FirstOccurrences(Flatten(SubSeq(server, 1, m)))

\* the page numbers 0, 1, ..., m
PagesUpTo(m) == [i \in 1..(m + 1) |-> i - 1]

\* download_wishlist has returned to its caller
FetchReturned == pc = "check_empty"

\* positions of the log entries <<op, i>>
Entries(op, i) == {p \in 1..Len(log) : log[p] = <<op, i>>}
Count(op, i) == Cardinality(Entries(op, i))

\* add_to_wishlist has returned its counters
ReplReturned == pc = "summary"

\* the loop is done with identifier i
Processed(i) == i < idx \/ (i = idx /\ pc \in {"repl_next", "summary"})

(***************************************************************************)
(* C1: when pages 0..k-1 are non-empty objects and page k is the empty     *)
(* object, download_wishlist returns the identifiers of pages 0..k-1, each *)
(* once, in first-seen order, after exactly the requests 0, 1, ..., k.     *)
(***************************************************************************)
C1_FetchUnion ==
  (FetchReturned /\ dl_end = "empty") =>
     /\ app_ids = UnionOfPages(Len(server))
     /\ NoRepeat(app_ids)
     /\ requests = PagesUpTo(Len(server))

\* a two-page wishlist whose second page repeats an identifier of the first
C1_Witness ==
  /\ FetchReturned
  /\ dl_end = "empty"
  /\ Len(server) = 2
  /\ Range(server[1]) \cap Range(server[2]) # {}
  /\ Range(server[2]) \ Range(server[1]) # {}
  /\ Len(requests) = 3

(***************************************************************************)
(* C2: a transport error on the request for page m ends the loop:          *)
(* download_wishlist issues no request after it, does not raise, and       *)
(* returns the identifiers of pages 0..m-1 in first-seen order.            *)
(***************************************************************************)
C2_TransportPartial ==
  dl_end = "transport" =>
     /\ pc \in {"dl_return", "check_empty"}
     /\ mode = "running"
     /\ requests = PagesUpTo(page)
     /\ wishlist_data = UnionOfPages(page)
     /\ FetchReturned => app_ids = UnionOfPages(page)

\* the request for page 1 failed after page 0 was merged
C2_Witness ==
  /\ FetchReturned
  /\ dl_end = "transport"
  /\ page = 1
  /\ Len(server) = 2
  /\ app_ids = server[1]
  /\ requests = <<0, 1>>

(***************************************************************************)
(* C3: when main returns, in whatever way (replication done, dry run,      *)
(* empty wishlist, a fetch ended by a transport error, user interrupt,     *)
(* fatal error), the cache directory temp_wishlist does not exist.         *)
(***************************************************************************)
C3_CacheDirGone ==
  (pc = "exit" /\ mode \in {"normal", "dryrun", "empty", "interrupt", "fatal"}) =>
     ~dirExists

(***************************************************************************)
(* C4: the counters add_to_wishlist returns satisfy                        *)
(* added + skipped + errors = N, every identifier incrementing exactly one *)
(* of them, and skipped is the number of identifiers reported hidden.      *)
(***************************************************************************)
C4_CountersPartition ==
  ReplReturned =>
     /\ added + skipped + errors = Len(app_ids)
     /\ \A i \in 1..Len(app_ids) :
          Count("Added", i) + Count("Skipped", i) + Count("Error", i) = 1
     /\ skipped = Cardinality({i \in 1..Len(app_ids) : Count("Skipped", i) > 0})

(***************************************************************************)
(* C5: the rate-limit delay is applied exactly once for each identifier    *)
(* whose outcome is Added, right after the add action, and not at all for  *)
(* an identifier whose outcome is Skipped or Error.                        *)
(***************************************************************************)
C5_DelayOnlyWhenAdded ==
  \A i \in 1..Len(app_ids) :
     /\ (Processed(i) /\ Count("Added", i) > 0) =>
           /\ Count("rate_delay", i) = 1
           /\ \A p \in Entries("Added", i) :
                 p < Len(log) /\ log[p + 1] = <<"rate_delay", i>>
     /\ (Count("Skipped", i) > 0 \/ Count("Error", i) > 0) =>
           Count("rate_delay", i) = 0

(***************************************************************************)
(* C6: no failure of a session call on one identifier, the recovery pause  *)
(* included, makes add_to_wishlist raise: the loop goes on to the later    *)
(* identifiers and the counters are returned.                              *)
(***************************************************************************)
C6_FailureNeverAborts ==
  \A i \in 1..Len(app_ids) :
     Count("Error", i) > 0 => pc # "except_exc"

(***************************************************************************)
(* C7: once the browser session has been launched, it is released by the   *)
(* time the process ends, on every exit path.                              *)
(***************************************************************************)
C7_SessionReleased ==
  pc = "exit" => (browser # "open" /\ (playwright # "off" => playwright = "stopped"))

\* a run interrupted during replication, the browser released by the with block
C7_Witness ==
  /\ pc = "exit"
  /\ mode = "interrupt"
  /\ browser = "terminated"
  /\ idx > 0

(***************************************************************************)
(* C8: after a user interrupt raised while the replication loop runs, no   *)
(* identifier is navigated to or added any more, and the process ends with *)
(* the session released and the cache directory deleted.                   *)
(***************************************************************************)
C8_InterruptAborts ==
  /\ \A p, q \in 1..Len(log) :
        (p < q /\ log[p][1] = "KeyboardInterrupt") =>
           log[q][1] \notin {"goto", "click", "Added"}
  /\ (pc = "exit" /\ \E p \in 1..Len(log) : log[p][1] = "KeyboardInterrupt") =>
        (~dirExists /\ browser # "open")

(***************************************************************************)
(* C9: a response body for page m that is not valid JSON or is no JSON     *)
(* object ends the loop like a transport error: no further request, no     *)
(* exception to the caller, the identifiers of pages 0..m-1 returned.      *)
(***************************************************************************)
C9_UnexpectedBodyEndsLoop ==
  (json_data.kind = "other" \/ dl_end = "invalid_json") =>
     /\ mode = "running"
     /\ requests = PagesUpTo(page)
     /\ FetchReturned => app_ids = UnionOfPages(page)

(***************************************************************************)
(* C10: the add action is triggered only for an identifier whose element   *)
(* was located and is not marked hidden, at most once per identifier, and  *)
(* over N identifiers with hidden subset S exactly N - |S| - errors times. *)
(***************************************************************************)
C10_ClicksCounted ==
  LET hiddenIds == {i \in 1..Len(app_ids) : Count("Skipped", i) > 0}
      triggered == {p \in 1..Len(log) :
                      /\ log[p][1] = "click"
                      /\ p < Len(log)
                      /\ log[p + 1][1] = "Added"}
  IN  /\ \A i \in 1..Len(app_ids) : Count("click", i) <= 1
      /\ \A i \in hiddenIds : Count("click", i) = 0
      /\ pc = "repl_click" => ~IsHidden(style)
      /\ ReplReturned =>
            Cardinality(triggered) = Len(app_ids) - Cardinality(hiddenIds) - errors


\* the positions of the process inside add_to_wishlist
ReplPcs == {"repl_start", "repl_next", "repl_goto", "repl_settle", "repl_gate",
            "repl_waitfor", "repl_getattr", "repl_click", "repl_delay",
            "repl_recover"}

(***************************************************************************)
(* C11: when the Fetcher returns an empty list, or in dry-run mode, main   *)
(* never asks for the credentials, never launches a browser session and    *)
(* never calls add_to_wishlist; add_to_wishlist runs only after the        *)
(* Fetcher has returned a non-empty list, with dry-run off.                *)
(***************************************************************************)
C11_NoReplicationWithoutList ==
  /\ (dry_run \/ wishlist_data = <<>>) =>
        /\ ~prompted
        /\ playwright = "off"
        /\ browser = "none"
        /\ pc \notin ReplPcs
        /\ log = <<>>
  /\ (pc \in ReplPcs \/ log # <<>>) =>
        /\ ~dry_run
        /\ dl_end \in {"empty", "transport", "invalid_json", "falsy"}
        /\ wishlist_data # <<>>

\* a dry run over a non-empty wishlist has ended
C11_Witness ==
  /\ pc = "exit"
  /\ mode = "dryrun"
  /\ Len(wishlist_data) >= 2
  /\ ~prompted
  /\ browser = "none"

(***************************************************************************)
(* C12: a second call of download_wishlist that gets the responses the     *)
(* first call got, with the cache directory still holding the first call's *)
(* page files, returns as the first did, with the identical list.          *)
(***************************************************************************)
C12_SecondCallSameList ==
  run = 2 =>
     /\ mode # "uncaught"
     /\ FetchReturned => app_ids = first.result

\* the second call has returned a list of two or more identifiers over the
\* page files of the first
C12_Witness ==
  /\ run = 2
  /\ FetchReturned
  /\ DOMAIN first.files # {}
  /\ Len(first.result) >= 2
  /\ app_ids = first.result


\* positions of the goto entries of the log
Gotos == {p \in 1..Len(log) : log[p][1] = "goto"}

C14_SlotBelowCounter ==
  \A k \in 1..Len(wishlist_data) :
     \E x \in DOMAIN files :
        /\ x < page
        /\ wishlist_data[k] \in Range(files[x].keys)

(***************************************************************************)
(* C14 as amended: a non-empty page is in its cache slot before its keys   *)
(* are merged and before the counter is incremented; every identifier in   *)
(* the accumulator belongs to a page written to a slot whose index is at   *)
(* most the page counter, and below it except between the merge and the    *)
(* increment; the terminating empty page and a failed request write no     *)
(* slot.                                                                   *)
(***************************************************************************)
C14_PersistedBeforeMerged ==
  /\ pc \in {"dl_merge", "dl_incr"} => (page \in DOMAIN files /\ files[page] = json_data)
  /\ \A k \in 1..Len(wishlist_data) :
        \E x \in DOMAIN files :
           /\ x <= page
           /\ pc # "dl_incr" => x < page
           /\ files[x].kind = "object"
           /\ wishlist_data[k] \in Range(files[x].keys)
  /\ dl_end \in {"empty", "falsy", "transport", "invalid_json"} =>
        DOMAIN files = 0..(page - 1)

\* two pages written and merged, then the loop ended by a failed request
C14_Witness ==
  /\ pc = "dl_return"
  /\ dl_end = "transport"
  /\ page = 2
  /\ DOMAIN files = {0, 1}
  /\ Len(wishlist_data) >= 2


(***************************************************************************)
(* C15: whatever handle_age_gate meets, a failure included, nothing is     *)
(* raised to add_to_wishlist: the next step is the lookup of the           *)
(* wishlist-action element for the same identifier, as when no gate is     *)
(* there, and no counter changes.                                          *)
(***************************************************************************)
C15_AgeGateNotFatal ==
  [][pc = "repl_gate" =>
        /\ pc' = "repl_waitfor"
        /\ idx' = idx
        /\ errors' = errors
        /\ added' = added
        /\ skipped' = skipped
        /\ \A p \in 1..Len(log') : log'[p][1] # "Error" \/ p <= Len(log)]_vars

\* the age gate failed for the second identifier, which was then added with no
\* error recorded for it
C15_Witness ==
  /\ idx = 2
  /\ gate = "failed"
  /\ Count("Added", 2) = 1
  /\ Count("Error", 2) = 0
  /\ Count("KeyboardInterrupt", 2) = 0

(***************************************************************************)
(* C16: with --limit L the list handed to the preview and to               *)
(* add_to_wishlist holds at most L identifiers and is the first min(L, N)  *)
(* identifiers of the N fetched, in their order, for every integer L, 0    *)
(* and negative values included.                                           *)
(***************************************************************************)
C16_LimitIsPrefix ==
  (limit # <<>> /\ pc \notin {"dl_mkdir", "dl_request", "dl_write", "dl_merge",
                              "dl_incr", "dl_return", "check_empty", "apply_limit"}
                /\ mode \notin {"empty", "uncaught", "interrupt_uncaught"}) =>
     /\ Len(app_ids) <= Max(limit[1], 0)
     /\ app_ids = SubSeq(wishlist_data, 1, Min(Max(limit[1], 0), Len(wishlist_data)))

============================================================================
